---- MODULE Spec2Model ----
(***************************************************************************)
(* The two thread-coordination programs of src/main.rs:                    *)
(*   - the shared counter: an Arc<Mutex<i32>> incremented by N spawned     *)
(*     threads, all joined, then read by main (lines 406-423, 443-446);    *)
(*   - the mpsc channel: producers that own a Sender, main that owns the   *)
(*     Receiver (lines 160-181, 206-224, 245-278).                         *)
(* Spec is the shared-counter program, ChanSpec the channel programs.      *)
(***************************************************************************)
EXTENDS Integers, Sequences, FiniteSets, TLC

\* The number of threads the source spawns: `for _ in 0..10`.
NumThreads == 10

\* Largest number of threads explored when a panic may strike a lock holder.
MaxWorkers == 5

Workers == 1..(IF MaxWorkers > NumThreads THEN MaxWorkers ELSE NumThreads)

VARIABLES
    n,          \* number of threads the spawn loop creates
    faulty,     \* whether a thread holding the lock may panic in this run
    mpc,        \* main thread: position in the program
    mi,         \* main thread: threads spawned / handles joined so far
    wpc,        \* wpc[w]: position of spawned thread w in its closure
    num,        \* num[w]: the value thread w read through its guard
    data,       \* Mutex: the protected i32
    locked,     \* Mutex: whether the lock is taken
    poisoned,   \* Mutex: the poisoned flag
    lockRes,    \* lockRes[c]: what c's last lock() returned (c = 0 is main)
    joinRes,    \* what main's last join() returned
    arcCount,   \* Arc: strong count of the shared counter
    abortVal,   \* history: the counter value when a holder panicked
    result,     \* the value main printed as "Result: .."
    prog,       \* which channel program runs
    cpc,        \* main thread of a channel program: position
    ppc,        \* ppc[p]: position of producer thread p in its closure
    pidx,       \* pidx[p]: how many of its vals producer p has taken
    sendRes,    \* sendRes[p]: what p's last send() returned
    txOwner,    \* txOwner[h]: who owns Sender handle h
    rxAlive,    \* whether the Receiver has not been dropped
    queue,      \* the messages in the channel
    recvRes,    \* what main's last recv() / try_recv() returned
    received,   \* the messages main printed as "Got: .."
    sent,       \* history: the messages whose send() returned Ok
    closed,     \* history: main has been handed a Disconnected
    npc,        \* main thread of the spawn-without-join program: position
    ni,         \* its loop variable i
    tpc,        \* the spawned thread of that program: position
    ti          \* its loop variable i

cvars == <<n, faulty, mpc, mi, wpc, num, data, locked, poisoned, lockRes, joinRes,
           arcCount, abortVal, result>>

chvars == <<prog, cpc, ppc, pidx, sendRes, txOwner, rxAlive, queue, recvRes,
            received, sent, closed>>

njvars == <<npc, ni, tpc, ti>>

vars == <<cvars, chvars, njvars>>

NoRes == [kind |-> "None", val |-> 0]

----------------------------------------------------------------------------
(* Mutex<i32>                                                              *)

\* A lock() that does not wait for the holder to release.
CanLockAlways(isLocked) == TRUE

\* lock() blocks the calling thread until the lock is free.
CanLock(isLocked) == ~isLocked

\* A lock() that hands out the guard without looking at the poisoned flag.
LockResultIgnoresPoison(isPoisoned, value) == [kind |-> "Ok", val |-> value]

\* lock() fails if a thread holding the lock panicked; the error still
\* carries the guard, and with it the protected value.
LockResult(isPoisoned, value) ==
    [kind |-> IF isPoisoned THEN "Poisoned" ELSE "Ok", val |-> value]

\* A guard drop that flips the flag instead of only ever setting it.
PoisonOnDropToggles(isPoisoned, panicking) == isPoisoned # panicking

\* Dropping a MutexGuard releases the lock; a guard dropped by a panicking
\* thread marks the mutex poisoned.
PoisonOnDrop(isPoisoned, panicking) == isPoisoned \/ panicking

\* `*num = 1` written for `*num += 1`.
StoredOne(v) == 1

\* `*num += 1`: the value stored through the guard.
Incremented(v) == v + 1

\* The contexts that own a MutexGuard (0 is main).
Holding(c) ==
    IF c = 0 THEN mpc \in {"lockret", "read"}
             ELSE wpc[c] \in {"lockret", "locked", "loaded", "stored"}

----------------------------------------------------------------------------
(* The shared-counter program                                              *)

\* No channel program runs beside the shared-counter program.
ChanOff ==
    /\ prog = "none"
    /\ cpc = "off"
    /\ ppc = [p \in {1, 2} |-> "unspawned"]
    /\ pidx = [p \in {1, 2} |-> 0]
    /\ sendRes = [p \in {1, 2} |-> NoRes]
    /\ txOwner = [h \in {"tx", "tx1"} |-> "none"]
    /\ rxAlive = FALSE
    /\ queue = <<>>
    /\ recvRes = NoRes
    /\ received = <<>>
    /\ sent = <<>>
    /\ closed = FALSE

NoJoinOff ==
    /\ npc = "off"
    /\ ni = 0
    /\ tpc = "unspawned"
    /\ ti = 0

Init ==
    /\ ChanOff
    /\ NoJoinOff
    /\ \/ n \in 0..MaxWorkers /\ faulty \in BOOLEAN
       \/ n = NumThreads /\ faulty = FALSE
    /\ mpc = "spawn"
    /\ mi = 0
    /\ wpc = [w \in Workers |-> "unspawned"]
    /\ num = [w \in Workers |-> 0]
    /\ data = 0
    /\ locked = FALSE
    /\ poisoned = FALSE
    /\ lockRes = [c \in {0} \cup Workers |-> NoRes]
    /\ joinRes = "None"
    /\ arcCount = 1
    /\ abortVal = 0
    /\ result = -1

\* for _ in 0..10 { Arc::clone; thread::spawn(move || ..); handles.push }
MainSpawn ==
    /\ mpc = "spawn"
    /\ mi < n
    /\ wpc' = [wpc EXCEPT ![mi + 1] = "start"]
    /\ arcCount' = arcCount + 1
    /\ mi' = mi + 1
    /\ UNCHANGED <<njvars, chvars, n, faulty, mpc, num, data, locked, poisoned, lockRes, joinRes,
                   abortVal, result>>

\* the spawn loop ends; `for handle in handles` begins
MainSpawned ==
    /\ mpc = "spawn"
    /\ mi = n
    /\ mpc' = IF n = 0 THEN "lock" ELSE "join"
    /\ mi' = 0
    /\ UNCHANGED <<njvars, chvars, n, faulty, wpc, num, data, locked, poisoned, lockRes, joinRes,
                   arcCount, abortVal, result>>

\* A join() that returns without waiting.
TerminatedOrRunning(w) == TRUE

\* handle.join(): waits for the thread to finish
Terminated(w) == wpc[w] \in {"done", "panicked"}

\* A join() that reports success whatever became of the thread.
JoinResultAlwaysOk(w) == "Ok"

JoinResult(w) == IF wpc[w] = "panicked" THEN "Err" ELSE "Ok"

MainJoin ==
    /\ mpc = "join"
    /\ Terminated(mi + 1)
    /\ joinRes' = JoinResult(mi + 1)
    /\ mpc' = "joinret"
    /\ UNCHANGED <<njvars, chvars, n, faulty, mi, wpc, num, data, locked, poisoned, lockRes,
                   arcCount, abortVal, result>>

\* .unwrap() of the join result (which it consumes)
MainJoinUnwrap ==
    /\ mpc = "joinret"
    /\ IF joinRes = "Ok"
       THEN /\ mi' = mi + 1
            /\ mpc' = IF mi + 1 = n THEN "lock" ELSE "join"
            /\ arcCount' = arcCount
       ELSE /\ mi' = mi
            /\ mpc' = "panicked"
            /\ arcCount' = arcCount - 1
    /\ joinRes' = "None"
    /\ UNCHANGED <<njvars, chvars, n, faulty, wpc, num, data, locked, poisoned, lockRes,
                   abortVal, result>>

\* counter.lock() of the final println!
MainLock ==
    /\ mpc = "lock"
    /\ CanLock(locked)
    /\ locked' = TRUE
    /\ lockRes' = [lockRes EXCEPT ![0] = LockResult(poisoned, data)]
    /\ mpc' = "lockret"
    /\ UNCHANGED <<njvars, chvars, n, faulty, mi, wpc, num, data, poisoned, joinRes, arcCount,
                   abortVal, result>>

\* .unwrap() of the lock result
MainLockUnwrap ==
    /\ mpc = "lockret"
    /\ IF lockRes[0].kind = "Ok"
       THEN /\ mpc' = "read"
            /\ UNCHANGED <<locked, poisoned, arcCount>>
       ELSE /\ mpc' = "panicked"
            /\ locked' = FALSE
            /\ poisoned' = PoisonOnDrop(poisoned, TRUE)
            /\ arcCount' = arcCount - 1
    /\ lockRes' = [lockRes EXCEPT ![0] = NoRes]
    /\ UNCHANGED <<njvars, chvars, n, faulty, mi, wpc, num, data, joinRes, abortVal, result>>

\* println!("Result: {}", *guard); the temporary guard is dropped
MainRead ==
    /\ mpc = "read"
    /\ result' = data
    /\ locked' = FALSE
    /\ poisoned' = PoisonOnDrop(poisoned, FALSE)
    /\ mpc' = "done"
    /\ arcCount' = arcCount - 1
    /\ UNCHANGED <<njvars, chvars, n, faulty, mi, wpc, num, data, lockRes, joinRes, abortVal>>

\* let mut num = counter.lock()
WorkerLock(w) ==
    /\ wpc[w] = "start"
    /\ CanLock(locked)
    /\ locked' = TRUE
    /\ lockRes' = [lockRes EXCEPT ![w] = LockResult(poisoned, data)]
    /\ wpc' = [wpc EXCEPT ![w] = "lockret"]
    /\ UNCHANGED <<njvars, chvars, n, faulty, mpc, mi, num, data, poisoned, joinRes, arcCount,
                   abortVal, result>>

\* .unwrap() of the lock result (which it consumes): a poisoned lock panics
\* the thread, which drops the guard the error carried and the thread's Arc
WorkerLockUnwrap(w) ==
    /\ wpc[w] = "lockret"
    /\ IF lockRes[w].kind = "Ok"
       THEN /\ wpc' = [wpc EXCEPT ![w] = "locked"]
            /\ UNCHANGED <<locked, poisoned, arcCount>>
       ELSE /\ wpc' = [wpc EXCEPT ![w] = "panicked"]
            /\ locked' = FALSE
            /\ poisoned' = PoisonOnDrop(poisoned, TRUE)
            /\ arcCount' = arcCount - 1
    /\ lockRes' = [lockRes EXCEPT ![w] = NoRes]
    /\ UNCHANGED <<njvars, chvars, n, faulty, mpc, mi, num, data, joinRes, abortVal, result>>

\* `*num += 1`, the load through the guard
WorkerLoad(w) ==
    /\ wpc[w] = "locked"
    /\ num' = [num EXCEPT ![w] = data]
    /\ wpc' = [wpc EXCEPT ![w] = "loaded"]
    /\ UNCHANGED <<njvars, chvars, n, faulty, mpc, mi, data, locked, poisoned, lockRes, joinRes,
                   arcCount, abortVal, result>>

\* `*num += 1`, the store through the guard
WorkerStore(w) ==
    /\ wpc[w] = "loaded"
    /\ data' = Incremented(num[w])
    /\ wpc' = [wpc EXCEPT ![w] = "stored"]
    /\ UNCHANGED <<njvars, chvars, n, faulty, mpc, mi, num, locked, poisoned, lockRes, joinRes,
                   arcCount, abortVal, result>>

\* A closure end that forgets its guard: the lock stays taken.
WorkerReturnKeepsLock(w) ==
    /\ wpc[w] = "stored"
    /\ wpc' = [wpc EXCEPT ![w] = "done"]
    /\ num' = [num EXCEPT ![w] = 0]
    /\ arcCount' = arcCount - 1
    /\ UNCHANGED <<njvars, chvars, n, faulty, mpc, mi, data, locked, poisoned, lockRes,
                   joinRes, abortVal, result>>

\* the closure returns: num goes out of scope, which releases the lock
WorkerReturn(w) ==
    /\ wpc[w] = "stored"
    /\ locked' = FALSE
    /\ poisoned' = PoisonOnDrop(poisoned, FALSE)
    /\ wpc' = [wpc EXCEPT ![w] = "done"]
    /\ num' = [num EXCEPT ![w] = 0]
    /\ arcCount' = arcCount - 1
    /\ UNCHANGED <<njvars, chvars, n, faulty, mpc, mi, data, lockRes, joinRes, abortVal, result>>

\* A panic whose unwinding does not run the guard's Drop: the mutex is
\* marked poisoned but stays locked.
WorkerPanicLeaksLock(w) ==
    /\ faulty
    /\ wpc[w] \in {"locked", "loaded", "stored"}
    /\ poisoned' = PoisonOnDrop(poisoned, TRUE)
    /\ abortVal' = data
    /\ wpc' = [wpc EXCEPT ![w] = "panicked"]
    /\ num' = [num EXCEPT ![w] = 0]
    /\ arcCount' = arcCount - 1
    /\ UNCHANGED <<njvars, chvars, n, faulty, mpc, mi, data, locked, lockRes, joinRes,
                   result>>

\* a thread holding the lock panics: unwinding drops its guard
WorkerPanic(w) ==
    /\ faulty
    /\ wpc[w] \in {"locked", "loaded", "stored"}
    /\ locked' = FALSE
    /\ poisoned' = PoisonOnDrop(poisoned, TRUE)
    /\ abortVal' = data
    /\ wpc' = [wpc EXCEPT ![w] = "panicked"]
    /\ num' = [num EXCEPT ![w] = 0]
    /\ arcCount' = arcCount - 1
    /\ UNCHANGED <<njvars, chvars, n, faulty, mpc, mi, data, lockRes, joinRes, result>>

Next ==
    \/ MainSpawn
    \/ MainSpawned
    \/ MainJoin
    \/ MainJoinUnwrap
    \/ MainLock
    \/ MainLockUnwrap
    \/ MainRead
    \/ \E w \in Workers : WorkerLock(w)
    \/ \E w \in Workers : WorkerLockUnwrap(w)
    \/ \E w \in Workers : WorkerLoad(w)
    \/ \E w \in Workers : WorkerStore(w)
    \/ \E w \in Workers : WorkerReturn(w)
    \/ \E w \in Workers : WorkerPanic(w)

Spec == Init /\ [][Next]_vars

\* One step of main in the shared-counter program.
MainCounterStep ==
    \/ MainSpawn
    \/ MainSpawned
    \/ MainJoin
    \/ MainJoinUnwrap
    \/ MainLock
    \/ MainLockUnwrap
    \/ MainRead

\* One step of the code of spawned thread w (not a panic striking it).
WorkerStep(w) ==
    \/ WorkerLock(w)
    \/ WorkerLockUnwrap(w)
    \/ WorkerLoad(w)
    \/ WorkerStore(w)
    \/ WorkerReturn(w)

\* The scheduler runs every thread that can take a step.
FairSpec ==
    /\ Spec
    /\ WF_vars(MainCounterStep)
    /\ \A w \in Workers : WF_vars(WorkerStep(w))

----------------------------------------------------------------------------
(* Properties of the shared-counter program                                *)

Contexts == {0} \cup Workers

PcOf(c) == IF c = 0 THEN mpc ELSE wpc[c]

Holders == {c \in Contexts : Holding(c)}

Panicked == {w \in Workers : wpc[w] = "panicked"}

\* C1: when main has joined every thread and printed the result, the value
\* it read is the number of threads spawned, each of which added 1: no
\* interleaving loses an update (10 threads give 10).
NoLostUpdate == mpc = "done" => result = n

\* C1 witness: the source's run, ten threads joined and "Result: 10".
TenThreadsResultTen ==
    mpc = "done" /\ n = NumThreads /\ result = NumThreads /\ ~faulty

\* The step in which context c reads or writes the counter value.
Accesses(c) ==
    IF c = 0 THEN mpc = "read" /\ mpc' = "done"
             ELSE \/ wpc[c] = "locked" /\ wpc'[c] = "loaded"
                  \/ wpc[c] = "loaded" /\ wpc'[c] = "stored"

\* C2: at most one context (a thread or main) owns a guard of the counter
\* at any time, and every step that reads or writes the counter value is
\* taken by the one context that owns the guard, with the lock taken; the
\* value changes in no other step.
LockDiscipline ==
    /\ [](Cardinality(Holders) <= 1)
    /\ [][ /\ \A c \in Contexts : Accesses(c) => (Holders = {c} /\ locked)
           /\ data' # data => \E c \in Contexts : Accesses(c) ]_vars

\* C2 witness: one thread has stored through its guard and still owns it
\* while another spawned thread is waiting in lock().
HolderAndWaiter ==
    \E w, v \in Workers :
        wpc[w] = "stored" /\ wpc[v] = "start" /\ locked /\ data > 1

\* C7: once a thread has panicked while it held the lock, every lock() that
\* returns gives the Poisoned error carrying the value the counter had when
\* the holder panicked; a lock() on a poisoned counter never returns Ok.
PoisonedLockFails ==
    \A c \in Contexts :
        PcOf(c) = "lockret" =>
            /\ Panicked # {} =>
                   lockRes[c] = [kind |-> "Poisoned", val |-> abortVal]
            /\ poisoned => lockRes[c].kind = "Poisoned"

\* C7 witness: a lock() has just returned Poisoned, carrying a counter
\* value that earlier threads had raised before the holder panicked.
PoisonedLockReturned ==
    \E c \in Contexts :
        /\ PcOf(c) = "lockret"
        /\ lockRes[c].kind = "Poisoned"
        /\ lockRes[c].val > 1
        /\ Cardinality(Panicked) = 1

\* C8: a poisoned counter stays poisoned: no step of any thread (lock,
\* unwrap, guard drop, thread end) clears the flag.
PoisonIsPermanent == [][poisoned => poisoned']_vars

\* C8 witness: after the poisoning, further threads have locked, failed and
\* released, main has given up, and the counter is free and still poisoned.
PoisonedAfterLaterLocks ==
    poisoned /\ ~locked /\ Cardinality(Panicked) >= 3 /\ mpc = "panicked"

\* The spawned threads whose closure has returned.
Finished == {w \in Workers : wpc[w] = "done"}

\* C11: join() has returned only for a thread whose closure has ended, and
\* main is at its final lock/read/print only when every spawned thread has
\* ended.
JoinWaitsForThread ==
    /\ mpc = "joinret" => wpc[mi + 1] \in {"done", "panicked"}
    /\ mpc \in {"join", "joinret"} =>
           \A w \in 1..mi : wpc[w] \in {"done", "panicked"}
    /\ mpc \in {"lock", "lockret", "read", "done"} =>
           \A w \in 1..n : wpc[w] \in {"done", "panicked"}

\* C11 witness: main reads the counter after ten threads, all ended.
FinalReadAfterTen ==
    mpc = "read" /\ n = NumThreads /\ Finished = 1..NumThreads

\* C13: the result join() returned is Err exactly if the joined thread
\* panicked and Ok exactly if its closure returned.
JoinReportsOutcome ==
    mpc = "joinret" =>
        /\ joinRes = "Err" <=> wpc[mi + 1] = "panicked"
        /\ joinRes = "Ok" <=> wpc[mi + 1] = "done"

\* C13 witness: after a successful join, the join of a panicked thread has
\* returned Err.
JoinErrReturned ==
    mpc = "joinret" /\ joinRes = "Err" /\ mi >= 1 /\ wpc[mi + 1] = "panicked"

\* C14: the lock is taken exactly while some context is inside the scope of
\* its guard; a thread that returned or panicked, and main once it ended,
\* own no guard, so the lock is never left taken by a finished context.
LockFreedAtScopeEnd ==
    /\ locked <=> \E c \in Contexts :
                     PcOf(c) \in {"lockret", "locked", "loaded", "stored",
                                  "read"}
    /\ (\A w \in 1..n : wpc[w] \in {"done", "panicked"}) /\
           mpc \in {"join", "joinret", "lock", "done", "panicked"}
           => ~locked

\* C14 witness: a thread panicked with the guard, and the lock is free again
\* with other threads still to lock.
LockFreeAfterPanic ==
    /\ Cardinality(Panicked) = 1
    /\ Finished # {}
    /\ ~locked
    /\ \E w \in Workers : wpc[w] = "start"

\* C16: whenever the lock is free and the counter not poisoned, the value
\* is the number of threads that completed their increment; the value never
\* decreases and never exceeds the number of threads.
IncrementsLinearized ==
    /\ []((~locked /\ ~poisoned) => data = Cardinality(Finished))
    /\ [](data <= n)
    /\ [][data' >= data]_vars

\* C16 witness: between two increments, three done and more to come.
ThreeOfManyDone ==
    /\ ~locked /\ ~poisoned
    /\ data = 3
    /\ \E w \in Workers : wpc[w] = "start"
    /\ \E w \in Workers : wpc[w] = "unspawned" /\ w <= n

\* C19 as stated: a thread's panic makes main fail at its final
\* counter.lock().unwrap(), that is after every join.
PoisonFailsFinalLock ==
    (poisoned /\ mpc = "panicked") => mi = n

\* C19, amended: once the counter is poisoned no thread gets into the scope
\* of a guard (each later lock().unwrap() panics), the value never changes
\* again, and main never reaches its final lock: it fails at the
\* join().unwrap() of a panicked thread and prints no result.
PoisonStopsProgram ==
    /\ [](poisoned =>
             /\ \A w \in Workers : wpc[w] \notin {"locked", "loaded", "stored"}
             /\ \A w \in Workers :
                    wpc[w] = "lockret" => lockRes[w].kind = "Poisoned"
             /\ mpc \notin {"lock", "lockret", "read", "done"}
             /\ mpc = "panicked" => mi < n
             /\ result = -1)
    /\ [][poisoned => data' = data]_vars

\* C19 witness: one thread panicked with the lock, two more panicked in
\* lock().unwrap(), and main failed in a join.
MainFailedInJoin ==
    /\ mpc = "panicked"
    /\ mi < n
    /\ Cardinality(Panicked) = 3
    /\ data = abortVal
    /\ data >= 1

\* C15: with fair scheduling and no panic the program terminates: every
\* spawned thread ends having returned from its closure (so each one that
\* waited in lock() got the lock and stored through its guard), main gets
\* past every join() and prints the result, and no state short of that is
\* without a next step.
CounterTerminates ==
    ~faulty =>
        /\ <>[](mpc = "done" /\ result = n /\ Finished = 1..n /\ ~locked)
        /\ [](mpc = "done" \/ ENABLED Next)

\* C15 witness: main has printed the result of a fault-free run of several
\* threads, all of which returned and released the counter.
AllReturnedAndReported ==
    /\ ~faulty
    /\ mpc = "done"
    /\ n = MaxWorkers
    /\ Finished = 1..n
    /\ arcCount = 0

----------------------------------------------------------------------------
(* mpsc channel                                                            *)

Handles == {"tx", "tx1"}

Producers(pr) == IF pr \in {"two_producers", "poll"} THEN {1, 2} ELSE {1}

ThreadName(p) == IF p = 1 THEN "t1" ELSE "t2"

\* The Sender moved into producer p's closure: the clone tx1 goes to the
\* first thread and the original tx to the second; a lone producer gets tx.
HandleOf(pr, p) ==
    IF pr \in {"two_producers", "poll"} /\ p = 1 THEN "tx1" ELSE "tx"

\* let vals = vec![...] of producer p
Vals(pr, p) ==
    IF pr \in {"send_only", "recv_once"} THEN <<"hi">>
    ELSE IF p = 1 THEN <<"hi", "from", "the", "thread">>
    ELSE <<"more", "messages", "for", "you">>

\* How main consumes: not at all, one recv(), `for received in rx`, or a
\* try_recv loop.
Consumer(pr) ==
    CASE pr = "send_only" -> "none"
      [] pr = "recv_once" -> "once"
      [] pr = "poll" -> "poll"
      [] OTHER -> "iter"

\* A spawn that leaves the Sender with main instead of moving it.
KeptByMain(p) == "main"

\* `move ||`: the closure of thread p takes ownership of its Sender.
MovedInto(p) == ThreadName(p)

\* A closed-check that looks at the original transmitter only.
SendersAliveOriginalOnly(owner) == owner["tx"] \notin {"none", "dropped"}

\* The channel is open while some Sender, the original or a clone, exists.
SendersAlive(owner) == \E h \in Handles : owner[h] \notin {"none", "dropped"}

\* A queue that puts the newest message in front.
EnqueueFront(q, msg) == <<msg>> \o q

Enqueue(q, msg) == Append(q, msg)

\* send() returns an error, holding the value, if the Receiver has already
\* been dropped.
SendResult(alive, msg) ==
    IF alive THEN [kind |-> "Ok", val |-> ""] ELSE [kind |-> "Err", val |-> msg]

\* A send() that enqueues whether or not a Receiver is left.
SendQueueAlways(q, alive, msg) == Enqueue(q, msg)

SendQueue(q, alive, msg) == IF alive THEN Enqueue(q, msg) ELSE q

\* recv() blocks until a value is in the channel or the transmitters closed.
RecvReady(q, sendersAlive) == q # <<>> \/ ~sendersAlive

\* A recv() that reports the closure before handing out what is queued.
RecvResultClosedFirst(q, sendersAlive) ==
    IF sendersAlive /\ q # <<>>
    THEN [kind |-> "Ok", val |-> Head(q)]
    ELSE [kind |-> "Disconnected", val |-> ""]

\* recv() returns the oldest value; when the transmitters have closed and
\* nothing is left it returns the error that ends the stream.
RecvResult(q, sendersAlive) ==
    IF q # <<>>
    THEN [kind |-> "Ok", val |-> Head(q)]
    ELSE [kind |-> "Disconnected", val |-> ""]

\* The error of a try_recv() that finds no message.
TryRecvError(sendersAlive) == IF sendersAlive THEN "Empty" ELSE "Disconnected"

\* A try_recv() that hands out the newest message.
TryRecvResultNewest(q, sendersAlive) ==
    IF q # <<>>
    THEN [kind |-> "Ok", val |-> q[Len(q)]]
    ELSE [kind |-> TryRecvError(sendersAlive), val |-> ""]

\* try_recv() returns at once: Ok with a message if one is available, an
\* Err if there is none this time.
TryRecvResult(q, sendersAlive) ==
    IF q # <<>>
    THEN [kind |-> "Ok", val |-> Head(q)]
    ELSE [kind |-> TryRecvError(sendersAlive), val |-> ""]

\* The queue after a receive that returned a message.
Dequeue(q) == IF q # <<>> THEN Tail(q) ELSE q

\* The Sender handles a terminating thread or main gives up.
DropOwned(owner, who) ==
    [h \in Handles |-> IF owner[h] = who THEN "dropped" ELSE owner[h]]

----------------------------------------------------------------------------
(* The channel programs                                                    *)

ChanPrograms == {"send_only", "recv_once", "one_producer", "two_producers",
                 "poll"}

\* No shared-counter program runs beside the channel program.
CounterOff ==
    /\ n = 0
    /\ faulty = FALSE
    /\ mpc = "off"
    /\ mi = 0
    /\ wpc = [w \in Workers |-> "unspawned"]
    /\ num = [w \in Workers |-> 0]
    /\ data = 0
    /\ locked = FALSE
    /\ poisoned = FALSE
    /\ lockRes = [c \in {0} \cup Workers |-> NoRes]
    /\ joinRes = "None"
    /\ arcCount = 1
    /\ abortVal = 0
    /\ result = -1

\* let (tx, rx) = mpsc::channel();
ChanInit ==
    /\ CounterOff
    /\ NoJoinOff
    /\ prog \in ChanPrograms
    /\ cpc = IF Producers(prog) = {1} THEN "spawn1" ELSE "clone"
    /\ ppc = [p \in {1, 2} |-> "unspawned"]
    /\ pidx = [p \in {1, 2} |-> 0]
    /\ sendRes = [p \in {1, 2} |-> NoRes]
    /\ txOwner = [h \in Handles |-> IF h = "tx" THEN "main" ELSE "none"]
    /\ rxAlive = TRUE
    /\ queue = <<>>
    /\ recvRes = NoRes
    /\ received = <<>>
    /\ sent = <<>>
    /\ closed = FALSE

\* main's position once every producer is spawned
AfterSpawn(pr) ==
    CASE Consumer(pr) = "none" -> "end"
      [] Consumer(pr) = "poll" -> "try"
      [] OTHER -> "recv"

\* let tx1 = tx.clone();
MainClone ==
    /\ cpc = "clone"
    /\ txOwner["tx"] = "main"
    /\ txOwner' = [txOwner EXCEPT !["tx1"] = "main"]
    /\ cpc' = "spawn1"
    /\ UNCHANGED <<njvars, cvars, prog, ppc, pidx, sendRes, rxAlive, queue,
                   recvRes, received, sent, closed>>

\* thread::spawn(move || { let vals = ..; for val in vals { .. } })
MainSpawnProducer(p) ==
    /\ cpc = IF p = 1 THEN "spawn1" ELSE "spawn2"
    /\ p \in Producers(prog)
    /\ txOwner' = [txOwner EXCEPT ![HandleOf(prog, p)] = MovedInto(p)]
    /\ ppc' = [ppc EXCEPT ![p] = "loop"]
    /\ cpc' = IF p = 1 /\ 2 \in Producers(prog) THEN "spawn2"
              ELSE AfterSpawn(prog)
    /\ UNCHANGED <<njvars, cvars, prog, pidx, sendRes, rxAlive, queue,
                   recvRes, received, sent, closed>>

\* rx.recv(), also the one `for received in rx` calls for its next item
MainRecv ==
    /\ cpc = "recv"
    /\ RecvReady(queue, SendersAlive(txOwner))
    /\ recvRes' = RecvResult(queue, SendersAlive(txOwner))
    /\ queue' = IF recvRes'.kind = "Ok" THEN Dequeue(queue) ELSE queue
    /\ cpc' = "recvret"
    /\ UNCHANGED <<njvars, cvars, prog, ppc, pidx, sendRes, txOwner, rxAlive,
                   received, sent, closed>>

\* what main does with the result: println!("Got: {}", received) and, in the
\* for loop, the next round; the error ends the loop, or panics the unwrap()
MainRecvReturn ==
    /\ cpc = "recvret"
    /\ IF recvRes.kind = "Ok"
       THEN /\ received' = Append(received, recvRes.val)
            /\ cpc' = IF Consumer(prog) = "iter" THEN "recv" ELSE "end"
            /\ UNCHANGED <<rxAlive, txOwner>>
       ELSE /\ received' = received
            /\ IF Consumer(prog) = "iter"
               THEN cpc' = "end" /\ UNCHANGED <<rxAlive, txOwner>>
               ELSE /\ cpc' = "panicked"
                    /\ rxAlive' = FALSE
                    /\ txOwner' = DropOwned(txOwner, "main")
    /\ recvRes' = NoRes
    /\ closed' = (closed \/ recvRes.kind = "Disconnected")
    /\ UNCHANGED <<njvars, cvars, prog, ppc, pidx, sendRes, queue, sent>>

\* rx.try_recv() in a loop that checks every so often
MainTryRecv ==
    /\ cpc = "try"
    /\ recvRes' = TryRecvResult(queue, SendersAlive(txOwner))
    /\ queue' = IF recvRes'.kind = "Ok" THEN Dequeue(queue) ELSE queue
    /\ cpc' = "tryret"
    /\ UNCHANGED <<njvars, cvars, prog, ppc, pidx, sendRes, txOwner, rxAlive,
                   received, sent, closed>>

\* handle the message if one was available, otherwise do other work; then
\* check again
MainTryReturn ==
    /\ cpc = "tryret"
    /\ received' = IF recvRes.kind = "Ok" THEN Append(received, recvRes.val)
                   ELSE received
    /\ recvRes' = NoRes
    /\ closed' = (closed \/ recvRes.kind = "Disconnected")
    /\ cpc' = "try"
    /\ UNCHANGED <<njvars, cvars, prog, ppc, pidx, sendRes, txOwner, rxAlive,
                   queue, sent>>

\* main returns: rx, and any Sender main still owns, go out of scope
MainEnd ==
    /\ cpc = "end"
    /\ rxAlive' = FALSE
    /\ txOwner' = DropOwned(txOwner, "main")
    /\ cpc' = "done"
    /\ UNCHANGED <<njvars, cvars, prog, ppc, pidx, sendRes, queue, recvRes,
                   received, sent, closed>>

\* A send() on a channel of bounded capacity, which waits while it is full.
ProducerSendBounded(p) ==
    /\ ppc[p] = "loop"
    /\ pidx[p] < Len(Vals(prog, p))
    /\ Len(queue) < 2
    /\ LET msg == Vals(prog, p)[pidx[p] + 1] IN
        /\ sendRes' = [sendRes EXCEPT ![p] = SendResult(rxAlive, msg)]
        /\ queue' = SendQueue(queue, rxAlive, msg)
        /\ sent' = IF rxAlive THEN Append(sent, msg) ELSE sent
    /\ pidx' = [pidx EXCEPT ![p] = pidx[p] + 1]
    /\ ppc' = [ppc EXCEPT ![p] = "unwrap"]
    /\ UNCHANGED <<njvars, cvars, prog, cpc, txOwner, rxAlive, recvRes,
                   received, closed>>

\* for val in vals { tx.send(val) .. }: the send of the next value
ProducerSend(p) ==
    /\ ppc[p] = "loop"
    /\ pidx[p] < Len(Vals(prog, p))
    /\ LET msg == Vals(prog, p)[pidx[p] + 1] IN
        /\ sendRes' = [sendRes EXCEPT ![p] = SendResult(rxAlive, msg)]
        /\ queue' = SendQueue(queue, rxAlive, msg)
        /\ sent' = IF rxAlive THEN Append(sent, msg) ELSE sent
    /\ pidx' = [pidx EXCEPT ![p] = pidx[p] + 1]
    /\ ppc' = [ppc EXCEPT ![p] = "unwrap"]
    /\ UNCHANGED <<njvars, cvars, prog, cpc, txOwner, rxAlive, recvRes,
                   received, closed>>

\* .unwrap() of the send result, then thread::sleep: an error panics the
\* thread, which drops its Sender
ProducerUnwrap(p) ==
    /\ ppc[p] = "unwrap"
    /\ IF sendRes[p].kind = "Ok"
       THEN /\ ppc' = [ppc EXCEPT ![p] = "loop"]
            /\ txOwner' = txOwner
       ELSE /\ ppc' = [ppc EXCEPT ![p] = "panicked"]
            /\ txOwner' = DropOwned(txOwner, ThreadName(p))
    /\ sendRes' = [sendRes EXCEPT ![p] = NoRes]
    /\ UNCHANGED <<njvars, cvars, prog, cpc, pidx, rxAlive, queue, recvRes,
                   received, sent, closed>>

\* vals is exhausted: the closure returns and its Sender is dropped
ProducerExit(p) ==
    /\ ppc[p] = "loop"
    /\ pidx[p] = Len(Vals(prog, p))
    /\ ppc' = [ppc EXCEPT ![p] = "done"]
    /\ txOwner' = DropOwned(txOwner, ThreadName(p))
    /\ UNCHANGED <<njvars, cvars, prog, cpc, pidx, sendRes, rxAlive, queue,
                   recvRes, received, sent, closed>>

\* A panic whose unwinding leaves the closure's Sender alive.
ProducerPanicKeepsSender(p) ==
    /\ ppc[p] = "unwrap"
    /\ sendRes[p].kind = "Ok"
    /\ ppc' = [ppc EXCEPT ![p] = "panicked"]
    /\ sendRes' = [sendRes EXCEPT ![p] = NoRes]
    /\ UNCHANGED <<njvars, cvars, prog, cpc, pidx, txOwner, rxAlive, queue,
                   recvRes, received, sent, closed>>

\* a producer panics in its loop after a send that succeeded: unwinding
\* drops the Sender its closure owns
ProducerPanic(p) ==
    /\ ppc[p] = "unwrap"
    /\ sendRes[p].kind = "Ok"
    /\ ppc' = [ppc EXCEPT ![p] = "panicked"]
    /\ sendRes' = [sendRes EXCEPT ![p] = NoRes]
    /\ txOwner' = DropOwned(txOwner, ThreadName(p))
    /\ UNCHANGED <<njvars, cvars, prog, cpc, pidx, rxAlive, queue, recvRes,
                   received, sent, closed>>

MainStep ==
    \/ MainClone
    \/ \E p \in {1, 2} : MainSpawnProducer(p)
    \/ MainRecv
    \/ MainRecvReturn
    \/ MainTryRecv
    \/ MainTryReturn
    \/ MainEnd

ProducerStep(p) == ProducerSend(p) \/ ProducerUnwrap(p) \/ ProducerExit(p)

ChanNext ==
    \/ MainClone
    \/ \E p \in {1, 2} : MainSpawnProducer(p)
    \/ MainRecv
    \/ MainRecvReturn
    \/ MainTryRecv
    \/ MainTryReturn
    \/ MainEnd
    \/ \E p \in {1, 2} : ProducerSend(p)
    \/ \E p \in {1, 2} : ProducerUnwrap(p)
    \/ \E p \in {1, 2} : ProducerExit(p)
    \/ \E p \in {1, 2} : ProducerPanic(p)

ChanSpec == ChanInit /\ [][ChanNext]_vars

\* The scheduler runs every thread that can take a step.
ChanFairSpec ==
    /\ ChanSpec
    /\ WF_vars(MainStep)
    /\ \A p \in {1, 2} : WF_vars(ProducerStep(p))

----------------------------------------------------------------------------
(* A thread spawned and never joined                                       *)

\* for i in 1..5 in main, for i in 1..10 in the spawned thread
MainHiEnd == 5
SpawnedHiEnd == 10

NoJoinInit ==
    /\ CounterOff
    /\ ChanOff
    /\ npc = "spawn"
    /\ ni = 0
    /\ tpc = "unspawned"
    /\ ti = 0

\* thread::spawn(|| { .. }); returns at once and main enters its loop
NoJoinSpawn ==
    /\ npc = "spawn"
    /\ tpc' = "print"
    /\ ti' = 1
    /\ npc' = "print"
    /\ ni' = 1
    /\ UNCHANGED <<cvars, chvars>>

\* println!("hi number {} from the main thread!", i);
NoJoinMainPrint ==
    /\ npc = "print"
    /\ npc' = "sleep"
    /\ UNCHANGED <<cvars, chvars, ni, tpc, ti>>

\* thread::sleep(..); and the next turn of main's loop
NoJoinMainSleep ==
    /\ npc = "sleep"
    /\ ni' = ni + 1
    /\ npc' = IF ni + 1 < MainHiEnd THEN "print" ELSE "exit"
    /\ UNCHANGED <<cvars, chvars, tpc, ti>>

\* A main that waits for the spawned thread before it returns.
NoJoinMainExitJoins ==
    /\ npc = "exit"
    /\ tpc = "done"
    /\ npc' = "exited"
    /\ UNCHANGED <<cvars, chvars, ni, tpc, ti>>

\* main returns: the process ends, whatever the spawned thread is doing
NoJoinMainExit ==
    /\ npc = "exit"
    /\ npc' = "exited"
    /\ UNCHANGED <<cvars, chvars, ni, tpc, ti>>

\* println!("hi number {} from the spawned thread!", i);
NoJoinThreadPrint ==
    /\ npc # "exited"
    /\ tpc = "print"
    /\ tpc' = "sleep"
    /\ UNCHANGED <<cvars, chvars, npc, ni, ti>>

\* thread::sleep(..); and the next turn of the thread's loop
NoJoinThreadSleep ==
    /\ npc # "exited"
    /\ tpc = "sleep"
    /\ ti' = ti + 1
    /\ tpc' = IF ti + 1 < SpawnedHiEnd THEN "print" ELSE "done"
    /\ UNCHANGED <<cvars, chvars, npc, ni>>

NoJoinThreadStep ==
    \/ NoJoinThreadPrint
    \/ NoJoinThreadSleep

NoJoinNext ==
    \/ NoJoinSpawn
    \/ NoJoinMainPrint
    \/ NoJoinMainSleep
    \/ NoJoinMainExit
    \/ NoJoinThreadPrint
    \/ NoJoinThreadSleep

NoJoinSpec == NoJoinInit /\ [][NoJoinNext]_vars

\* The lines the spawned thread has printed.
SpawnedPrints ==
    CASE tpc = "unspawned" -> 0
      [] tpc = "print" -> ti - 1
      [] tpc = "sleep" -> ti
      [] tpc = "done" -> SpawnedHiEnd - 1

\* C12: without a join nothing makes main wait for the spawned thread: once
\* main's loop is over its return is enabled however little the thread
\* has printed, and once main has returned the thread takes no further
\* step, so what it printed stays below its full output if it was below.
MainEndsWithoutWaiting ==
    /\ npc = "exit" => ENABLED NoJoinMainExit
    /\ npc = "exited" => ~ENABLED NoJoinThreadStep
    /\ SpawnedPrints \in 0..(SpawnedHiEnd - 1)

\* C12 witness: main has printed its four lines and returned while the
\* spawned thread has not run at all.
MainEndedThreadNeverRan ==
    /\ npc = "exited"
    /\ ni = MainHiEnd
    /\ tpc = "print" /\ ti = 1
    /\ SpawnedPrints = 0

-----------------------------------------------------------------------------
(* Properties of the channel programs                                      *)

Range(q) == {q[i] : i \in 1..Len(q)}

IsPrefix(a, b) == Len(a) <= Len(b) /\ a = SubSeq(b, 1, Len(a))

\* The Sender handles that exist: created and not yet dropped.
LiveSenders == {h \in Handles : txOwner[h] \in {"main", "t1", "t2"}}

\* The messages main received that producer p sent, in arrival order.
ReceivedFrom(p) ==
    SelectSeq(received, LAMBDA m : m \in Range(Vals(prog, p)))

\* C3: the messages of each producer's Sender arrive at main in the order
\* in which that producer sent them, however they interleave with the
\* messages of the other producer.
FifoPerSender ==
    \A p \in Producers(prog) : IsPrefix(ReceivedFrom(p), Vals(prog, p))

\* C3 witness: all eight messages of the two producers have arrived, the
\* second producer's first message ahead of the first producer's.
InterleavedArrival ==
    /\ prog = "two_producers"
    /\ Len(received) = 8
    /\ received[1] = "more"
    /\ received[2] = "hi"
    /\ received[8] = "you"

\* C4: a blocking recv() has returned Disconnected only if no Sender handle,
\* original or clone, exists any more.
DisconnectedOnlyWhenAllDropped ==
    (cpc = "recvret" /\ recvRes.kind = "Disconnected") => LiveSenders = {}

\* C4 witness: with the original and the cloned Sender both dropped, recv()
\* has returned Disconnected.
RecvDisconnected ==
    /\ prog = "two_producers"
    /\ cpc = "recvret"
    /\ recvRes.kind = "Disconnected"
    /\ txOwner = [h \in Handles |-> "dropped"]

\* The message a receive has returned and main has not yet printed.
InHand == IF recvRes.kind = "Ok" THEN {recvRes.val} ELSE {}

\* C5: main never receives a message twice or one that was not sent; while
\* the Receiver exists every message whose send returned Ok is, once, either
\* received or still on its way; and when the Receiver signals Disconnected
\* every such message has been received and none is left in the channel.
DeliveredExactlyOnce ==
    /\ \A i, j \in 1..Len(received) : received[i] = received[j] => i = j
    /\ Range(received) \subseteq Range(sent)
    /\ rxAlive =>
           /\ Range(sent) = Range(received) \cup InHand \cup Range(queue)
           /\ Len(sent) = Len(received) + Cardinality(InHand) + Len(queue)
    /\ (cpc \in {"recvret", "tryret"} /\ recvRes.kind = "Disconnected") =>
           /\ Range(sent) \subseteq Range(received)
           /\ Len(received) = Len(sent)
           /\ queue = <<>>

\* C5 witness: the for loop gets Disconnected after all eight messages of
\* the two producers.
AllEightThenDisconnected ==
    /\ prog = "two_producers"
    /\ cpc = "recvret"
    /\ recvRes.kind = "Disconnected"
    /\ Len(received) = 8

\* C6: while main iterates the Receiver it owns no Sender, and under fair
\* scheduling the for loop of a program whose producers send their values
\* and return ends: main gets Disconnected and leaves the loop.
ReceiveLoopEnds ==
    /\ [](cpc \in {"recv", "recvret"} =>
             \A h \in Handles : txOwner[h] # "main")
    /\ (Consumer(prog) = "iter") =>
           /\ <>(cpc = "recvret" /\ recvRes.kind = "Disconnected")
           /\ <>[](cpc = "done")

\* C6 witness: main has left the for loop of the two-producer program with
\* all eight messages printed.
LoopLeft ==
    prog = "two_producers" /\ cpc = "done" /\ Len(received) = 8

\* C9: a send() made when the Receiver is already dropped returns Err with
\* the message in it, leaves the sender running (it is the caller's
\* unwrap() that comes next), and leaves the channel as it was.
SendAfterReceiverDropped ==
    [][ \A p \in {1, 2} :
          (ppc[p] = "loop" /\ ppc'[p] # "loop" /\ ~rxAlive
              /\ pidx[p] < Len(Vals(prog, p))) =>
             /\ sendRes'[p] =
                    [kind |-> "Err", val |-> Vals(prog, p)[pidx[p] + 1]]
             /\ ppc'[p] = "unwrap"
             /\ queue' = queue
             /\ sent' = sent ]_vars

\* C9 witness: a producer holds the Err its send() returned after main had
\* dropped the Receiver.
SendErrReturned ==
    \E p \in {1, 2} :
        ppc[p] = "unwrap" /\ sendRes[p].kind = "Err" /\ ~rxAlive
            /\ sendRes[p].val = "hi"

\* C10: try_recv() is always able to return: with a message queued it
\* returns the oldest one and removes it, with none queued it returns Empty
\* while a Sender exists and Disconnected when all are dropped.
TryRecvNeverBlocks ==
    /\ [](cpc = "try" => ENABLED MainTryRecv)
    /\ [][ (cpc = "try" /\ cpc' = "tryret") =>
             IF queue # <<>>
             THEN /\ recvRes' = [kind |-> "Ok", val |-> queue[1]]
                  /\ queue' = SubSeq(queue, 2, Len(queue))
             ELSE /\ recvRes'.kind =
                        IF LiveSenders # {} THEN "Empty" ELSE "Disconnected"
                  /\ queue' = queue ]_vars

\* C10 witness: try_recv() on the empty, still open channel has returned
\* Empty.
TryRecvEmpty ==
    /\ cpc = "tryret"
    /\ recvRes.kind = "Empty"
    /\ queue = <<>>
    /\ LiveSenders # {}
    /\ received # <<>>

\* C17: no step but recv() waits in a channel program: a producer with a
\* value left can always send, whatever is queued and whether or not main
\* is receiving; main can always clone, spawn and try_recv; and every
\* thread that has not ended and is not in recv() has a step it can take.
OnlyRecvBlocks ==
    /\ \A p \in {1, 2} :
          (ppc[p] = "loop" /\ pidx[p] < Len(Vals(prog, p))) =>
              ENABLED ProducerSend(p)
    /\ \A p \in {1, 2} : ppc[p] \in {"loop", "unwrap"} => ENABLED ProducerStep(p)
    /\ cpc = "clone" => ENABLED MainClone
    /\ cpc = "spawn1" => ENABLED MainSpawnProducer(1)
    /\ cpc = "spawn2" => ENABLED MainSpawnProducer(2)
    /\ cpc = "try" => ENABLED MainTryRecv
    /\ cpc \in {"recvret", "tryret", "end"} => ENABLED MainStep

\* C17 witness: six messages are queued, main has received none, the
\* Receiver is alive and a producer is about to send its next value.
SendWithSixQueued ==
    /\ Len(queue) = 6
    /\ received = <<>>
    /\ rxAlive
    /\ \E p \in {1, 2} : ppc[p] = "loop" /\ pidx[p] < Len(Vals(prog, p))

\* C20: a producer that has ended, by return or by panic, owns no Sender;
\* and under fair scheduling the for loop still gets every message that
\* was sent, also those of a producer that panicked in the middle of its
\* vals, and then gets Disconnected.
PanickedProducerClosesChannel ==
    /\ [](\A p \in Producers(prog) :
             ppc[p] \in {"done", "panicked"} =>
                 txOwner[HandleOf(prog, p)] = "dropped")
    /\ (Consumer(prog) = "iter") =>
           <>(/\ cpc = "recvret"
              /\ recvRes.kind = "Disconnected"
              /\ received = sent)

\* C20 witness: the first producer panicked after two of its four values,
\* the second returned, and the for loop got the six messages and then
\* Disconnected.
SixThenDisconnected ==
    /\ prog = "two_producers"
    /\ ppc[1] = "panicked" /\ pidx[1] = 2
    /\ ppc[2] = "done"
    /\ cpc = "recvret"
    /\ recvRes.kind = "Disconnected"
    /\ Len(received) = 6

\* A receive call returns in this step.
ReceiveReturns == cpc \in {"recv", "try"} /\ cpc' \in {"recvret", "tryret"}

\* C21: closure is permanent. Whenever main holds or has been handed a
\* Disconnected, no Sender handle exists, nothing is queued and tx.clone()
\* cannot be made; and from then on no step creates a Sender, sends,
\* enqueues or delivers a message, and every receive call that returns
\* returns Disconnected.
ClosureIsPermanent ==
    /\ []((closed \/ recvRes.kind = "Disconnected") =>
             /\ LiveSenders = {}
             /\ queue = <<>>
             /\ ~ENABLED MainClone)
    /\ [][closed =>
             /\ closed'
             /\ txOwner' = txOwner
             /\ queue' = queue
             /\ sent' = sent
             /\ received' = received
             /\ ReceiveReturns => recvRes'.kind = "Disconnected"]_vars

\* C21 witness: the polling loop was handed Disconnected after all eight
\* messages, called try_recv() again and got Disconnected again.
DisconnectedAgain ==
    /\ prog = "poll"
    /\ closed
    /\ cpc = "tryret"
    /\ recvRes.kind = "Disconnected"
    /\ Len(received) = 8

====
